---- MODULE Spec2Model ----
(***************************************************************************)
(* The day-cycle engine of the daily briefing (src/generators/cycle.py):   *)
(* the persisted record cycles.json, the CycleEngine instances that load   *)
(* it, and the calls advance / get_current / reset / simulate_days, with   *)
(* the calendar and the content of the file as the environment.            *)
(*                                                                         *)
(* Dates are day numbers.  A timestamp string is a sequence: <<d>> is the  *)
(* ISO text of a moment on day d (the time of day is dropped, as           *)
(* advance() drops it with .date()), << >> is a text that is no ISO        *)
(* timestamp.                                                              *)
(***************************************************************************)
EXTENDS Integers, Sequences, FiniteSets, TLC

VARIABLES
    today,      \* the calendar date datetime.now() falls on
    file,       \* the content of cycles.json
    disk,       \* whether the file can be written: "ok", "denied", "full"
    engines,    \* the CycleEngine instances: [constructed, state]
    lastCall,   \* the call made in the last step, its outcome and its log line
    dayStart,   \* the content of cycles.json when the day of the runs began
    gpc,        \* the position of gather_data / generate_briefing
    outcome,    \* what each source did in the current gather_data call
    context,    \* the context dictionary, in insertion order
    missing,    \* the list get_missing_fields returned
    brief,      \* the flags, emails and result of generate_briefing
    store,      \* the Table_*.xlsx files, oldest modification first
    retry,      \* a call of a function wrapped by async_retry
    saving      \* per instance, the record a split _save_state is writing

\* the variables of the briefing run, which the cycle engine does not touch
briefVars == <<gpc, outcome, context, missing>>

\* the variables of the rest of the run, of the retry wrapper and of the
\* saves in progress
moreVars == <<brief, store, retry, saving>>

vars == <<today, file, disk, engines, lastCall, dayStart, gpc, outcome, context,
          missing, brief, store, retry, saving>>

----------------------------------------------------------------------------
(* Bounds of the model *)

MaxDay == 3          \* the calendar runs over days 0..MaxDay
MonthLen == 3        \* days per month of the model's calendar
MaxSim == 9          \* largest num_days given to simulate_days
MaxYearSpan == 2     \* rollovers explored above each starting year
MaxAttempts == 3     \* largest max_attempts given to async_retry

MaxDelay == 3        \* largest max_delay given to async_retry

MaxRows == 3         \* rows of the latest table when update_table_xlsx is called

MaxPhrases == 2      \* phrases the rotation chooses among

MaxKeys == 3         \* keys of the contexts checked for missing fields

(* Program constants *)

InitialYear == 1980
InitialDaysLeft == 3

US_STATES ==
    << "Alabama", "Alaska", "Arizona", "Arkansas", "California", "Colorado",
       "Connecticut", "Delaware", "Florida", "Georgia", "Hawaii", "Idaho",
       "Illinois", "Indiana", "Iowa", "Kansas", "Kentucky", "Louisiana",
       "Maine", "Maryland", "Massachusetts", "Michigan", "Minnesota",
       "Mississippi", "Missouri", "Montana", "Nebraska", "Nevada",
       "New Hampshire", "New Jersey", "New Mexico", "New York",
       "North Carolina", "North Dakota", "Ohio", "Oklahoma", "Oregon",
       "Pennsylvania", "Rhode Island", "South Carolina", "South Dakota",
       "Tennessee", "Texas", "Utah", "Vermont", "Virginia", "Washington",
       "West Virginia", "Wisconsin", "Wyoming" >>

Engines == {"e1", "e2"}

\* the instances a single-process run uses
Runs == {"e1"}

Years == InitialYear..(InitialYear + MaxYearSpan)

----------------------------------------------------------------------------
(* Timestamps *)

isoformat(d) == <<d>>

IsIso(s) == Len(s) = 1

fromisoformat_date(s) == s[1]

NotIso == << >>

\* day of the month of day d in the model's calendar (1..MonthLen)
DayOfMonth(d) == (d % MonthLen) + 1

----------------------------------------------------------------------------
(* CycleState *)

CycleFields == {"year", "state_index", "days_left", "last_updated"}

CycleState(y, i, d, lu) ==
    [year |-> y, state_index |-> i, days_left |-> d, last_updated |-> lu]

\* CycleState.current_state
current_state(s) == US_STATES[(s.state_index % Len(US_STATES)) + 1]

\* the (year, state name, days_left) triple the calls return
Triple(s) == <<s.year, current_state(s), s.days_left>>

NoData == [none |-> TRUE]

NoFile == [kind |-> "missing", data |-> NoData]
EmptyFile == [kind |-> "empty", data |-> NoData]
MalformedFile == [kind |-> "malformed", data |-> NoData]
ObjectFile(data) == [kind |-> "object", data |-> data]

NoEngine == [constructed |-> FALSE, state |-> NoData]

NoCall == [op |-> "none", args |-> << >>, raised |-> "none",
           result |-> << >>, log |-> "none"]

Call(op, args, raised, result, log) ==
    [op |-> op, args |-> args, raised |-> raised, result |-> result, log |-> log]

----------------------------------------------------------------------------
(* Variants of the definitions below, each with one slip in it: every      *)
(* property of the engine is violated by the variant of the code it rests  *)
(* on.                                                                     *)

\* the save is skipped without an error
save_state_skipped(s, f, dk) == [file |-> f, raised |-> "none"]

\* the error of the write is logged and not raised again
save_state_swallowed(s, f, dk) ==
    IF dk = "ok" THEN [file |-> ObjectFile(s), raised |-> "none"]
    ELSE IF dk = "denied" THEN [file |-> f, raised |-> "none"]
    ELSE [file |-> EmptyFile, raised |-> "none"]

\* the default record is dated the day before its creation
InitialState_yesterday(now) ==
    [year |-> InitialYear, state_index |-> 0, days_left |-> InitialDaysLeft,
     last_updated |-> <<now - 1>>]

\* the default record starts on the second state
InitialState_second(now) ==
    [year |-> InitialYear, state_index |-> 1, days_left |-> InitialDaysLeft,
     last_updated |-> <<now>>]

\* > for >=
SameDay_strict(last_date, current_date) == last_date > current_date

\* = for >=
SameDay_equal(last_date, current_date) == last_date = current_date

\* > for >=
WrapIndex_late(i) == IF i > Len(US_STATES) THEN 0 ELSE i

\* the index is never wrapped
WrapIndex_never(i) == i

\* the rollover happens one day late
CycleStep_late(s) ==
    IF s.days_left > 0
    THEN [s EXCEPT !.days_left = s.days_left - 1]
    ELSE [s EXCEPT !.days_left = 3,
                   !.year = s.year + 1,
                   !.state_index = IF s.state_index + 1 >= Len(US_STATES)
                                   THEN 0 ELSE s.state_index + 1]

\* the rollover forgets the year
CycleStep_keeps_year(s) ==
    IF s.days_left > 1
    THEN [s EXCEPT !.days_left = s.days_left - 1]
    ELSE [s EXCEPT !.days_left = 3,
                   !.state_index = IF s.state_index + 1 >= Len(US_STATES)
                                   THEN 0 ELSE s.state_index + 1]

\* the rollover forgets the state
CycleStep_keeps_state(s) ==
    IF s.days_left > 1
    THEN [s EXCEPT !.days_left = s.days_left - 1]
    ELSE [s EXCEPT !.days_left = 3, !.year = s.year + 1]

----------------------------------------------------------------------------
(* _save_state: open(file, 'w') and json.dump.  A refused open leaves the  *)
(* file as it was; a write that fails after the open leaves it truncated.  *)

save_state(s, f, dk) ==
    IF dk = "ok" THEN [file |-> ObjectFile(s), raised |-> "none"]
    ELSE IF dk = "denied" THEN [file |-> f, raised |-> "OSError"]
    ELSE [file |-> EmptyFile, raised |-> "OSError"]

\* where the process can be killed inside _save_state: before open(), after
\* open() has truncated the file, while json.dump is writing, after the close
KillPoints == {"before open", "after open", "during dump", "after close"}

\* the file a process killed at point p of _save_state(s) leaves
save_state_killed(s, f, p) ==
    CASE p = "before open" -> f
      [] p = "after open" -> EmptyFile
      [] p = "during dump" -> MalformedFile
      [] p = "after close" -> ObjectFile(s)

\* the try block of _load_state succeeds: the file exists, is JSON, and
\* CycleState(**data) accepts its keys.  The values are not checked: the
\* records explored hold integers in the three numeric fields and any text
\* in last_updated
LoadSucceeds(f) ==
    /\ f.kind = "object"
    /\ DOMAIN f.data = CycleFields

\* the initial state _load_state creates
InitialState(now) ==
    CycleState(InitialYear, 0, InitialDaysLeft, isoformat(now))

\* _load_state: the state it returns, the file it leaves, what it raises and
\* the last line it logs before saving ("Failed to load cycle state" when the
\* file exists and the try block raised)
load_state(f, dk, now) ==
    IF LoadSucceeds(f)
    THEN [state |-> f.data, file |-> f, raised |-> "none", log |-> "Loaded cycle state"]
    ELSE LET sv == save_state(InitialState(now), f, dk)
         IN  [state |-> InitialState(now), file |-> sv.file, raised |-> sv.raised,
              log |-> IF f.kind = "missing" THEN "Created initial cycle state"
                      ELSE "Failed to load cycle state"]

----------------------------------------------------------------------------
(* advance *)

\* line 116: no advance when the record's date is not before today
SameDay(last_date, current_date) == last_date >= current_date

\* lines 133-134
WrapIndex(i) == IF i >= Len(US_STATES) THEN 0 ELSE i

\* lines 122-134: one cycle-step
CycleStep(s) ==
    IF s.days_left > 1
    THEN [s EXCEPT !.days_left = s.days_left - 1]
    ELSE [s EXCEPT !.days_left = 3,
                   !.year = s.year + 1,
                   !.state_index = WrapIndex(s.state_index + 1)]

StepLog(s) == IF s.days_left > 1 THEN "Decremented days_left" ELSE "Reset cycle"

\* the whole of advance() on in-memory state s
advance_eff(s, f, dk, now) ==
    IF ~IsIso(s.last_updated)
    THEN [state |-> s, file |-> f, raised |-> "ValueError", result |-> << >>,
          log |-> "none"]
    ELSE IF SameDay(fromisoformat_date(s.last_updated), now)
    THEN [state |-> s, file |-> f, raised |-> "none", result |-> <<Triple(s)>>,
          log |-> "Same day, returning current cycle values"]
    ELSE LET t == [CycleStep(s) EXCEPT !.last_updated = isoformat(now)]
             sv == save_state(t, f, dk)
         IN  [state |-> t, file |-> sv.file, raised |-> sv.raised,
              result |-> IF sv.raised = "none" THEN <<Triple(t)>> ELSE << >>,
              log |-> StepLog(s)]

advance(e) ==
    /\ engines[e].constructed
    /\ LET r == advance_eff(engines[e].state, file, disk, today)
       IN  /\ r.state.year \in Years \/ r.state = engines[e].state
           /\ engines' = [engines EXCEPT ![e].state = r.state]
           /\ file' = r.file
           /\ lastCall' = Call("advance", << >>, r.raised, r.result, r.log)
    /\ UNCHANGED <<today, disk>>
    /\ UNCHANGED <<dayStart, briefVars>>
    /\ UNCHANGED moreVars

----------------------------------------------------------------------------
(* get_current *)

get_current(e) ==
    /\ engines[e].constructed
    /\ lastCall' = Call("get_current", << >>, "none",
                        <<Triple(engines[e].state)>>, "none")
    /\ UNCHANGED <<today, file, disk, engines>>
    /\ UNCHANGED <<dayStart, briefVars>>
    /\ UNCHANGED moreVars

----------------------------------------------------------------------------
(* reset *)

reset(e, y, i, d) ==
    /\ engines[e].constructed
    /\ LET t == CycleState(y, i, d, isoformat(today))
           sv == save_state(t, file, disk)
       IN  /\ engines' = [engines EXCEPT ![e].state = t]
           /\ file' = sv.file
           /\ lastCall' = Call("reset", <<y, i, d>>, sv.raised, << >>,
                               IF sv.raised = "none" THEN "Reset cycle state"
                               ELSE "Failed to save cycle state")
    /\ UNCHANGED <<today, disk>>
    /\ UNCHANGED <<dayStart, briefVars>>
    /\ UNCHANGED moreVars

----------------------------------------------------------------------------
(* simulate_days *)

\* lines 203-204: midnight of today with the day of the month lowered by one;
\* datetime.replace raises ValueError for day 0
YesterdayRaises(now) == DayOfMonth(now) - 1 < 1

Yesterday(now) == now - 1

\* lines 201-208: the loop, n iterations left, acc the results so far
RECURSIVE sim_loop(_, _, _, _, _, _)
sim_loop(s, f, dk, now, n, acc) ==
    IF n = 0
    THEN [state |-> s, file |-> f, raised |-> "none", result |-> acc]
    ELSE IF YesterdayRaises(now)
    THEN [state |-> s, file |-> f, raised |-> "ValueError", result |-> acc]
    ELSE LET r == advance_eff([s EXCEPT !.last_updated = isoformat(Yesterday(now))],
                              f, dk, now)
         IN  IF r.raised # "none"
             THEN [state |-> r.state, file |-> r.file, raised |-> r.raised,
                   result |-> acc]
             ELSE sim_loop(r.state, r.file, dk, now, n - 1,
                           Append(acc, r.result[1]))

\* lines 210-212 left out: the state is not put back
simulate_eff_norestore(s, f, dk, now, n) ==
    LET l == sim_loop(s, f, dk, now, n, << >>)
    IN  [state |-> l.state, file |-> l.file, raised |-> l.raised,
         result |-> IF l.raised = "none" THEN l.result ELSE << >>]

\* the whole of simulate_days(num_days) on in-memory state s
simulate_eff(s, f, dk, now, n) ==
    LET l == sim_loop(s, f, dk, now, n, << >>)
    IN  IF l.raised # "none"
        THEN [state |-> l.state, file |-> l.file, raised |-> l.raised,
              result |-> << >>]
        ELSE LET sv == save_state(s, l.file, dk)
             IN  [state |-> s, file |-> sv.file, raised |-> sv.raised,
                  result |-> IF sv.raised = "none" THEN l.result ELSE << >>]

simulate_days(e, n) ==
    /\ engines[e].constructed
    /\ LET r == simulate_eff(engines[e].state, file, disk, today, n)
       IN  /\ r.state.year \in Years \/ r.state = engines[e].state
           /\ engines' = [engines EXCEPT ![e].state = r.state]
           /\ file' = r.file
           /\ lastCall' = Call("simulate_days", <<n>>, r.raised, r.result, "none")
    /\ UNCHANGED <<today, disk>>
    /\ UNCHANGED <<dayStart, briefVars>>
    /\ UNCHANGED moreVars

----------------------------------------------------------------------------
(* Construction: CycleEngine.__init__ *)

Construct(e) ==
    LET r == load_state(file, disk, today)
    IN  /\ engines' = [engines EXCEPT ![e] =
                          IF r.raised = "none"
                          THEN [constructed |-> TRUE, state |-> r.state]
                          ELSE NoEngine]
        /\ file' = r.file
        /\ lastCall' = Call("construct", << >>, r.raised, << >>, r.log)
        /\ UNCHANGED <<today, disk>>
        /\ UNCHANGED <<dayStart, briefVars>>
        /\ UNCHANGED moreVars

----------------------------------------------------------------------------
(* The environment *)

\* the calendar moves on by g days
Tick(g) ==
    /\ today + g <= MaxDay
    /\ today' = today + g
    /\ lastCall' = NoCall
    /\ UNCHANGED <<file, disk, engines>>
    /\ UNCHANGED <<dayStart, briefVars>>
    /\ UNCHANGED moreVars

\* cycles.json is deleted or edited by hand
HandEdit(c) ==
    /\ file' = c
    /\ lastCall' = NoCall
    /\ UNCHANGED <<today, disk, engines>>
    /\ UNCHANGED <<dayStart, briefVars>>
    /\ UNCHANGED moreVars

\* the file system starts or stops refusing writes
DiskChange(dk) ==
    /\ disk # dk
    /\ disk' = dk
    /\ lastCall' = NoCall
    /\ UNCHANGED <<today, file, engines>>
    /\ UNCHANGED <<dayStart, briefVars>>
    /\ UNCHANGED moreVars

\* the process is killed inside the _save_state of advance(), at point p
advance_killed(e, p) ==
    /\ engines[e].constructed
    /\ disk = "ok"
    /\ IsIso(engines[e].state.last_updated)
    /\ ~SameDay(fromisoformat_date(engines[e].state.last_updated), today)
    /\ LET t == [CycleStep(engines[e].state) EXCEPT !.last_updated = isoformat(today)]
       IN  /\ file' = save_state_killed(t, file, p)
           /\ lastCall' = Call("advance", << >>, "killed", << >>, StepLog(engines[e].state))
    /\ engines' = [engines EXCEPT ![e] = NoEngine]
    /\ UNCHANGED <<today, disk>>
    /\ UNCHANGED <<dayStart, briefVars>>
    /\ UNCHANGED moreVars

\* the process is killed inside the _save_state of reset(), at point p
reset_killed(e, y, i, d, p) ==
    /\ engines[e].constructed
    /\ disk = "ok"
    /\ LET t == CycleState(y, i, d, isoformat(today))
       IN  /\ file' = save_state_killed(t, file, p)
           /\ lastCall' = Call("reset", <<y, i, d>>, "killed", << >>, "none")
    /\ engines' = [engines EXCEPT ![e] = NoEngine]
    /\ UNCHANGED <<today, disk>>
    /\ UNCHANGED <<dayStart, briefVars>>
    /\ UNCHANGED moreVars

\* the attempt whose failure is raised instead of slept on
last_attempt_never(attempt, max_attempts) == FALSE

\* the save of an instance has been written and closed; long tells whether
\* the text held the microseconds of last_updated
Saved(long) == [saved |-> TRUE, long |-> long]

\* the save of an instance between its open() and its close
Opened(s, long) == [saved |-> FALSE, long |-> long, state |-> s]

InSave(v) == v # NoData /\ ~v.saved

\* another run wrote a text with microseconds since this run's open()
LongerTextInFile(e) ==
    /\ file.kind = "object"
    /\ \E f \in Engines \ {e} : saving[f] = Saved(TRUE)

\* the file after json.dump and the close of a file opened with 'w': the
\* buffered text is written from offset 0 in one piece, over whatever another
\* run wrote since the open; a shorter text leaves the other run's tail
written(s, long, over_longer) ==
    IF over_longer /\ ~long THEN MalformedFile ELSE ObjectFile(s)

\* advance() on a later day, up to the open() of _save_state, which
\* truncates cycles.json; datetime.now().isoformat() leaves the microseconds
\* out when they are 0
advance_open(e) ==
    /\ engines[e].constructed
    /\ saving[e] = NoData
    /\ disk = "ok"
    /\ IsIso(engines[e].state.last_updated)
    /\ ~SameDay(fromisoformat_date(engines[e].state.last_updated), today)
    /\ \E long \in BOOLEAN :
       LET t == [CycleStep(engines[e].state) EXCEPT !.last_updated = isoformat(today)]
       IN  /\ engines' = [engines EXCEPT ![e].state = t]
           /\ saving' = [saving EXCEPT ![e] = Opened(t, long)]
           /\ file' = EmptyFile
           /\ lastCall' = Call("advance", << >>, "none", << >>, StepLog(engines[e].state))
    /\ UNCHANGED <<today, disk, dayStart, briefVars, brief, store, retry>>

\* the rest of that advance(): json.dump, the close and the return
advance_write(e) ==
    /\ engines[e].constructed
    /\ InSave(saving[e])
    /\ file' = written(saving[e].state, saving[e].long, LongerTextInFile(e))
    /\ saving' = [saving EXCEPT ![e] = Saved(saving[e].long)]
    /\ lastCall' = Call("advance", << >>, "none", <<Triple(engines[e].state)>>,
                        "Saved cycle state")
    /\ UNCHANGED <<today, disk, engines, dayStart, briefVars, brief, store, retry>>

\* a run starts while no other run is inside a save
run_construct(e) ==
    /\ ~engines[e].constructed
    /\ \A f \in Engines : ~InSave(saving[f])
    /\ Construct(e)

\* advance() answered from the same-day branch
advance_same_day(e) ==
    /\ engines[e].constructed
    /\ ~InSave(saving[e])
    /\ IsIso(engines[e].state.last_updated)
    /\ SameDay(fromisoformat_date(engines[e].state.last_updated), today)
    /\ advance(e)

\* the process is killed outside a save, or ends
Abort(e) ==
    /\ engines[e].constructed
    /\ engines' = [engines EXCEPT ![e] = NoEngine]
    /\ lastCall' = NoCall
    /\ UNCHANGED <<today, file, disk>>
    /\ UNCHANGED <<dayStart, briefVars>>
    /\ UNCHANGED moreVars

----------------------------------------------------------------------------
(* The briefing context: a Python dict, kept in insertion order.  A text   *)
(* is a sequence of pieces; the empty string is the empty sequence.        *)

Str(t) == [py |-> "str", v |-> t]

Lit(x) == Str(<<x>>)

None == [py |-> "NoneType", v |-> << >>]

\* Python truthiness of a text or None: `not value`
PyNot(x) == IF x.py = "str" THEN x.v = << >> ELSE TRUE

SENTINEL == Lit("(data unavailable)")

\* the text a source delivered for key k
Fetched(k) == Str(<<"fetched", k>>)

Digit == <<"0", "1", "2", "3", "4", "5", "6", "7", "8", "9">>

\* str(n) for n >= 0
RECURSIVE str(_)
str(n) == IF n < 10 THEN <<Digit[n + 1]>>
          ELSE str(n \div 10) \o <<Digit[(n % 10) + 1]>>

\* now.strftime("%A, %B %d, %Y")
strftime(now) == Str(<<"date ">> \o str(now))

Keys(ctx) == { ctx[i].key : i \in DOMAIN ctx }

\* context[k]
Get(ctx, k) == ctx[CHOOSE i \in DOMAIN ctx : ctx[i].key = k].value

\* context[k] = v: a key already there keeps its place
setitem(ctx, k, v) ==
    IF k \in Keys(ctx)
    THEN [i \in DOMAIN ctx |->
             IF ctx[i].key = k THEN [key |-> k, value |-> v] ELSE ctx[i]]
    ELSE Append(ctx, [key |-> k, value |-> v])

\* the assignments kvs = <<k1, v1>>, <<k2, v2>>, ... made in that order
RECURSIVE update(_, _)
update(ctx, kvs) ==
    IF Len(kvs) = 0 THEN ctx
    ELSE update(setitem(ctx, kvs[1][1], kvs[1][2]), Tail(kvs))

\* every key of ks is given the text its source delivered
fetched(ks) == [i \in DOMAIN ks |-> <<ks[i], Fetched(ks[i])>>]

\* every key of ks is given the value v
all(ks, v) == [i \in DOMAIN ks |-> <<ks[i], v>>]

----------------------------------------------------------------------------
(* gather_data: the date, the cycle values and the catchphrase *)

CYCLE_KEYS == <<"FULLDATE", "CURRENT_STUDY_YEAR", "CURRENT_STUDY_STATE",
                "DAYS_LEFT", "GET_TO_IT_SAYING">>

\* lines 54-67, given the triple advance() returned
header(now, t) ==
    << <<"FULLDATE", strftime(now)>>,
       <<"CURRENT_STUDY_YEAR", Str(str(t[1]))>>,
       <<"CURRENT_STUDY_STATE", Lit(t[2])>>,
       <<"DAYS_LEFT", Str(str(t[3]))>>,
       <<"GET_TO_IT_SAYING", Lit("dive into")>> >>

\* the sources in the order gather_data awaits them
SOURCES == <<"hacker_news", "github_trending", "sheets", "country",
             "year_based", "generated_facts", "language">>

SourceSet == { SOURCES[i] : i \in DOMAIN SOURCES }

\* gather_data returns after the source it awaited first
After_returns(s) == "done"

\* the position after source s: the next source, or the return
After(s) ==
    LET i == CHOOSE j \in DOMAIN SOURCES : SOURCES[j] = s
    IN  IF i = Len(SOURCES) THEN "done" ELSE SOURCES[i + 1]

gather_begin(e) ==
    /\ gpc = "idle"
    /\ engines[e].constructed
    /\ LET r == advance_eff(engines[e].state, file, disk, today)
       IN  /\ r.state.year \in Years \/ r.state = engines[e].state
           /\ engines' = [engines EXCEPT ![e].state = r.state]
           /\ file' = r.file
           /\ lastCall' = Call("advance", << >>, r.raised, r.result, r.log)
           /\ IF r.raised = "none"
              THEN /\ context' = update(<< >>, header(today, r.result[1]))
                   /\ gpc' = SOURCES[1]
              ELSE /\ context' = update(<< >>, << <<"FULLDATE", strftime(today)>> >>)
                   /\ gpc' = "raised"
    /\ outcome' = [s \in SourceSet |-> "pending"]
    /\ UNCHANGED <<today, disk, dayStart, missing>>
    /\ UNCHANGED moreVars

----------------------------------------------------------------------------
(* _gather_hacker_news *)

HN_KEYS == <<"YC_ARTICLE_PICK", "YC_ARTICLE_KEYWORDS", "YC_ARTICLE_SUMMARY",
             "YC_ARTICLE_KEYPOINTS">>

\* the sentinel is written for an empty result too
hacker_news_sentinel(ctx, o) ==
    IF o = "ok" THEN update(ctx, fetched(HN_KEYS))
    ELSE update(ctx, << <<"YC_ARTICLE_PICK", SENTINEL>>,
                        <<"YC_ARTICLE_SUMMARY", SENTINEL>>,
                        <<"YC_ARTICLE_KEYPOINTS", SENTINEL>>,
                        <<"YC_ARTICLE_KEYWORDS", SENTINEL>> >>)

hacker_news(ctx, o) ==
    CASE o = "ok" -> update(ctx, fetched(HN_KEYS))
      [] o = "empty" ->
            update(ctx, << <<"YC_ARTICLE_PICK", Lit("(No article available)")>>,
                           <<"YC_ARTICLE_SUMMARY", Lit("(Summary not available)")>>,
                           <<"YC_ARTICLE_KEYPOINTS", Lit("(Key points not available)")>>,
                           <<"YC_ARTICLE_KEYWORDS", Lit("(Keywords not available)")>> >>)
      [] o = "raises" ->
            update(ctx, << <<"YC_ARTICLE_PICK", SENTINEL>>,
                           <<"YC_ARTICLE_SUMMARY", SENTINEL>>,
                           <<"YC_ARTICLE_KEYPOINTS", SENTINEL>>,
                           <<"YC_ARTICLE_KEYWORDS", SENTINEL>> >>)

----------------------------------------------------------------------------
(* _gather_github_trending *)

GH_KEYS == <<"GITHUB_TRENDING_MCP_NAME", "GITHUB_TRENDING_MCP_SUMMARY">>

github_trending(ctx, o) ==
    CASE o = "ok" -> update(ctx, fetched(GH_KEYS))
      [] o = "empty" ->
            update(ctx, << <<"GITHUB_TRENDING_MCP_NAME", Lit("(No MCP repo found)")>>,
                           <<"GITHUB_TRENDING_MCP_SUMMARY",
                             Lit("(No MCP summary available)")>> >>)
      [] o = "raises" -> update(ctx, all(GH_KEYS, SENTINEL))

----------------------------------------------------------------------------
(* _gather_sheets_data *)

SHEETS_KEYS == <<"TRANSCRIPT_TABLE", "QUIZ_ME_CS_TERM", "QUIZ_ME_CS_DEFINE",
                 "QUIZ_ME_ESPANOL", "QuizMeIngles">>

\* lines 183-185: the keys the except block writes
SHEETS_EXCEPT_KEYS == <<"TRANSCRIPT_TABLE", "QUIZ_ME_CS_TERM", "QUIZ_ME_ESPANOL">>

\* "raises": the exception comes before any key is written; "raises late":
\* it comes from the Spanish quiz, after the transcripts and the CS quiz
sheets(ctx, o) ==
    CASE o = "ok" -> update(ctx, fetched(SHEETS_KEYS))
      [] o = "no connection" ->
            update(ctx, << <<"TRANSCRIPT_TABLE", Lit("Google Sheets connection failed")>>,
                           <<"QUIZ_ME_CS_TERM", Lit("CS quiz not available")>>,
                           <<"QUIZ_ME_ESPANOL", Lit("Spanish quiz not available")>> >>)
      [] o = "empty" ->
            update(ctx, << <<"TRANSCRIPT_TABLE",
                             Lit("No transcripts available for analysis")>>,
                           <<"QUIZ_ME_CS_TERM", Lit("CS quiz not available")>>,
                           <<"QUIZ_ME_CS_DEFINE", Lit("Definition not available")>>,
                           <<"QUIZ_ME_ESPANOL", Lit("Spanish quiz not available")>>,
                           <<"QuizMeIngles", Lit("English translation not available")>> >>)
      [] o = "raises" -> update(ctx, all(SHEETS_EXCEPT_KEYS, SENTINEL))
      [] o = "raises late" ->
            update(update(ctx, fetched(SubSeq(SHEETS_KEYS, 1, 3))),
                   all(SHEETS_EXCEPT_KEYS, SENTINEL))

----------------------------------------------------------------------------
(* _gather_country_data *)

COUNTRY_KEYS == <<"COUNTRY_OF_THE_DAY", "COUNTRY_CAPITAL_OF_THE_DAY",
                  "CAPITAL_LOCATION_BREAKDOWN">>

country(ctx, o) ==
    CASE o = "ok" -> update(ctx, fetched(COUNTRY_KEYS))
      [] o = "empty" ->
            update(ctx, << <<"COUNTRY_OF_THE_DAY", Lit("(Country not available)")>>,
                           <<"COUNTRY_CAPITAL_OF_THE_DAY", Lit("(Capital not available)")>>,
                           <<"CAPITAL_LOCATION_BREAKDOWN",
                             Lit("(Location not available)")>> >>)
      [] o = "raises" -> update(ctx, all(COUNTRY_KEYS, SENTINEL))

----------------------------------------------------------------------------
(* _gather_year_based_data *)

OSCAR_KEYS == <<"CURRENT_YEAR_BEST_PICTURE", "CURRENT_YEAR_BEST_ACTOR_IN_PICTURE",
                "CURRENT_YEAR_BEST_CINEMATOGRAPHY", "CURRENT_YEAR_BEST_SCORE",
                "CURRENT_YEAR_BEST_FOREIGN_FILM", "CURRENT_YEAR_BEST_PICTURE_SUM",
                "CURRENT_YEAR_BEST_ACTOR_IN_PICTURE_SUM",
                "CURRENT_YEAR_BEST_CINEMATOGRAPHY_SUM",
                "CURRENT_YEAR_BEST_SCORE_SUM",
                "CURRENT_YEAR_BEST_FOREIGN_FILM_SUM">>

YEAR_KEYS == OSCAR_KEYS \o <<"CURRENT_YEAR_US_PRESIDENT_VPS",
                             "NEW_MAJOR_PRESIDENTIAL_DECISION",
                             "MAJOR_INVENTION_OF_YEAR", "MAJOR_INVENTION_SUMMARY">>

\* yt is the text of the year; "no rows": none of the three tables has a row
\* for the year
year_based(ctx, o, yt) ==
    CASE o = "ok" -> update(ctx, fetched(YEAR_KEYS))
      [] o = "no rows" ->
            update(update(ctx, all(OSCAR_KEYS,
                                   Str(<<"No Oscars ceremony held in ">> \o yt))),
                   << <<"CURRENT_YEAR_US_PRESIDENT_VPS",
                        Str(<<"Presidential data not available for ">> \o yt)>>,
                      <<"NEW_MAJOR_PRESIDENTIAL_DECISION",
                        Str(<<"Presidential decision data not available for ">> \o yt)>>,
                      <<"MAJOR_INVENTION_OF_YEAR",
                        Str(<<"No major invention recorded for ">> \o yt)>>,
                      <<"MAJOR_INVENTION_SUMMARY",
                        Str(<<"No invention summary available for ">> \o yt)>> >>)
      [] o = "raises" -> update(ctx, all(YEAR_KEYS, SENTINEL))

----------------------------------------------------------------------------
(* _gather_generated_facts *)

FACT_KEYS == <<"WW1_FACT", "WW2_FACT", "EUROPE_FACT", "IRELAND_FACT",
               "JERUSALEM_FACT", "INDIA_FACT", "MEXICO_FACT",
               "STUNT_RIGGING_SUMMARY", "BIKE_FUN_FACT", "NASA_LAUNCH_HISTORY",
               "TEACH_ME_GC", "CURRENT_GOLF_STATE_SUMMARY">>

CODEBASE_KEYS == <<"CODEBASE_TODAY", "CODEBASE_SUMMARY">>

\* the calls of asyncio.gather that return an exception in outcome o
FailingCalls(o) ==
    CASE o = "first call fails" -> {FACT_KEYS[1]}
      [] o = "last call fails" -> {FACT_KEYS[Len(FACT_KEYS)]}
      [] o = "all calls fail" -> { FACT_KEYS[i] : i \in DOMAIN FACT_KEYS }
      [] OTHER -> {}

\* "raises": an exception outside the gathered calls and the codebase block
generated_facts(ctx, o) ==
    IF o = "raises"
    THEN update(ctx, all(FACT_KEYS \o CODEBASE_KEYS, SENTINEL))
    ELSE update(update(ctx, [i \in DOMAIN FACT_KEYS |->
                               <<FACT_KEYS[i],
                                 IF FACT_KEYS[i] \in FailingCalls(o)
                                 THEN SENTINEL ELSE Fetched(FACT_KEYS[i])>>]),
                IF o = "codebase fails"
                THEN << <<"CODEBASE_TODAY", Lit("(Codebase not available)")>>,
                        <<"CODEBASE_SUMMARY", Lit("(Summary not available)")>> >>
                ELSE fetched(CODEBASE_KEYS))

----------------------------------------------------------------------------
(* _gather_language_section *)

LANGUAGE_KEYS == <<"DAILY_LANGUAGE_SECTION">>

language(ctx, o) ==
    CASE o = "ok" -> update(ctx, fetched(LANGUAGE_KEYS))
      [] o = "empty" ->
            update(ctx, << <<"DAILY_LANGUAGE_SECTION",
                             Lit("(Language section not available)")>> >>)
      [] o = "raises" ->
            update(ctx, << <<"DAILY_LANGUAGE_SECTION",
                             Lit("(Language section unavailable)")>> >>)

----------------------------------------------------------------------------
(* gather_data: one source after the other *)

\* what each source can do
Outcomes(s) ==
    CASE s = "sheets" -> {"ok", "empty", "no connection", "raises", "raises late"}
      [] s = "year_based" -> {"ok", "no rows", "raises"}
      [] s = "generated_facts" ->
            {"ok", "first call fails", "last call fails", "all calls fail",
             "codebase fails", "raises"}
      [] OTHER -> {"ok", "empty", "raises"}

\* the context source s leaves when it does o
Gathered(s, o) ==
    CASE s = "hacker_news" -> hacker_news(context, o)
      [] s = "github_trending" -> github_trending(context, o)
      [] s = "sheets" -> sheets(context, o)
      [] s = "country" -> country(context, o)
      [] s = "year_based" ->
            year_based(context, o, Get(context, "CURRENT_STUDY_YEAR").v)
      [] s = "generated_facts" -> generated_facts(context, o)
      [] s = "language" -> language(context, o)

\* the await of source s, which does o; after the last one gather_data returns
gather_source(s, o) ==
    /\ gpc = s
    /\ context' = Gathered(s, o)
    /\ outcome' = [outcome EXCEPT ![s] = o]
    /\ gpc' = After(s)
    /\ UNCHANGED <<today, file, disk, engines, lastCall, dayStart, missing>>
    /\ UNCHANGED moreVars

----------------------------------------------------------------------------
(* get_missing_fields *)

\* the test `not value` is left out
RECURSIVE missing_fields_sentinel_only(_)
missing_fields_sentinel_only(ctx) ==
    IF Len(ctx) = 0 THEN << >>
    ELSE (IF ctx[1].value = SENTINEL THEN <<ctx[1].key>> ELSE << >>)
            \o missing_fields_sentinel_only(Tail(ctx))

\* file_writer.py lines 267-273
RECURSIVE missing_fields(_)
missing_fields(ctx) ==
    IF Len(ctx) = 0 THEN << >>
    ELSE (IF PyNot(ctx[1].value) \/ ctx[1].value = SENTINEL
          THEN <<ctx[1].key>> ELSE << >>)
            \o missing_fields(Tail(ctx))

\* generate_briefing line 398
get_missing_fields ==
    /\ gpc = "done"
    /\ missing' = missing_fields(context)
    /\ gpc' = "checked"
    /\ UNCHANGED <<today, file, disk, engines, lastCall, dayStart, outcome,
                   context>>
    /\ UNCHANGED moreVars

----------------------------------------------------------------------------
(* The inputs explored *)

ResetYears == {InitialYear, InitialYear + 1}

InRangeIndexes == {0, Len(US_STATES) - 2, Len(US_STATES) - 1}
InRangeDays == 1..3

\* the values of num_days explored
SimCounts == {0, 1, MaxSim}

\* reset() validates nothing: indexes and days outside the table too
AnyIndexes == InRangeIndexes \cup {-1, Len(US_STATES)}
AnyDays == InRangeDays \cup {0}

\* records a hand edit can leave: well-formed ones, dated in the past, today
\* or in the future, and ones whose last_updated is no ISO timestamp
EditedRecords ==
    { CycleState(InitialYear, i, d, lu) :
        i \in {0, Len(US_STATES) - 1}, d \in {1},
        lu \in {isoformat(0), isoformat(MaxDay), NotIso} }

\* a JSON object that lacks a field of the record
PartialObject == [year |-> InitialYear, state_index |-> 0, days_left |-> 3]

HandEdits ==
    {NoFile, EmptyFile, MalformedFile, ObjectFile(PartialObject)}
        \cup { ObjectFile(r) : r \in EditedRecords }

----------------------------------------------------------------------------

\* generate_briefing has not returned
NoBrief == [dry_run |-> FALSE, send_email |-> FALSE, failed |-> "none",
            gathered |-> << >>, txt |-> FALSE, row |-> FALSE,
            sent |-> << >>, delivered |-> << >>, result |-> "none"]

\* no wrapped function has been called
NoRetry == [pc |-> "idle", max_attempts |-> 0, max_delay |-> 0, attempt |-> 0,
            delay |-> 0, trace |-> << >>, sleeps |-> << >>,
            returned |-> "none", raised |-> "none"]

\* no table written, no wrapped call, no save in progress
MoreInit ==
    /\ brief = NoBrief
    /\ store = << >>
    /\ retry = NoRetry
    /\ saving = [e \in Engines |-> NoData]

\* no briefing run has started
BriefInit ==
    /\ gpc = "idle"
    /\ outcome = << >>
    /\ context = << >>
    /\ missing = << >>
    /\ MoreInit

Init ==
    /\ today = 0
    /\ file = NoFile
    /\ disk = "ok"
    /\ engines = [e \in Engines |-> NoEngine]
    /\ lastCall = NoCall
    /\ dayStart = NoFile
    /\ BriefInit

Next ==
    \/ \E e \in Runs : Construct(e)
    \/ \E e \in Runs : advance(e)
    \/ \E e \in Runs : get_current(e)
    \/ \E e \in Runs, y \in ResetYears, i \in AnyIndexes, d \in AnyDays :
          reset(e, y, i, d)
    \/ \E e \in Runs, n \in SimCounts : simulate_days(e, n)
    \/ \E g \in 1..MaxDay : Tick(g)
    \/ \E c \in HandEdits : HandEdit(c)

Spec == Init /\ [][Next]_vars

\* the calls alone, with arguments in range, from a fresh install
NextApi ==
    \/ \E e \in Runs : Construct(e)
    \/ \E e \in Runs : advance(e)
    \/ \E e \in Runs : get_current(e)
    \/ \E e \in Runs, y \in ResetYears, i \in InRangeIndexes, d \in InRangeDays :
          reset(e, y, i, d)
    \/ \E e \in Runs, n \in SimCounts : simulate_days(e, n)
    \/ \E g \in 1..MaxDay : Tick(g)

SpecApi == Init /\ [][NextApi]_vars

\* the calls, with fewer arguments, over a file system that can refuse writes
NextFault ==
    \/ \E e \in Runs : Construct(e)
    \/ \E e \in Runs : advance(e)
    \/ \E e \in Runs : get_current(e)
    \/ \E e \in Runs, i \in {0, Len(US_STATES) - 1}, d \in {1, 3} :
          reset(e, InitialYear, i, d)
    \/ \E e \in Runs, n \in {0, 1} : simulate_days(e, n)
    \/ \E g \in 1..MaxDay : Tick(g)
    \/ \E dk \in {"ok", "denied", "full"} : DiskChange(dk)

SpecFault == Init /\ [][NextFault]_vars

\* the calls over a file system that takes every write, with processes that
\* can be killed inside a save
NextCrash ==
    \/ \E e \in Runs : Construct(e)
    \/ \E e \in Runs : advance(e)
    \/ \E e \in Runs, i \in {0, Len(US_STATES) - 1}, d \in {1, 3} :
          reset(e, InitialYear, i, d)
    \/ \E g \in 1..MaxDay : Tick(g)
    \/ \E e \in Runs, p \in KillPoints : advance_killed(e, p)
    \/ \E e \in Runs, i \in {0, Len(US_STATES) - 1}, d \in {1, 3},
          p \in KillPoints : reset_killed(e, InitialYear, i, d, p)

SpecCrash == Init /\ [][NextCrash]_vars

\* the records cycles.json can hold when a day begins
StartRecords ==
    { CycleState(y, i, d, isoformat(lu)) :
        y \in ResetYears, i \in InRangeIndexes, d \in InRangeDays,
        lu \in 0..MaxDay }

\* one calendar day of runs: the file holds a record when the day begins
InitDay ==
    /\ today \in 1..MaxDay
    /\ file \in { ObjectFile(r) : r \in StartRecords }
    /\ dayStart = file
    /\ disk = "ok"
    /\ engines = [e \in Engines |-> NoEngine]
    /\ lastCall = NoCall
    /\ BriefInit

\* every run constructs the engine and calls advance(); any run can be killed
NextDay ==
    \/ \E e \in Runs : Construct(e)
    \/ \E e \in Runs : advance(e)
    \/ \E e \in Runs, p \in KillPoints : advance_killed(e, p)
    \/ \E e \in Runs : Abort(e)

SpecDay == InitDay /\ [][NextDay]_vars

\* file_writer.py: the tables directory is a sequence of workbooks in the
\* order of their modification times, the latest last

\* date.strftime("%m.%d.%y"): the month and the day of the model's calendar
get_date_string(d) == <<(d \div MonthLen) + 1, DayOfMonth(d)>>

\* date.strftime("%Y-%m-%d")
strftime_ymd(d) == Str(<<"ymd ">> \o str(d))

\* _get_headers_from_context, lines 179-221
ORDERED_FIELDS ==
    <<"Date", "FULLDATE", "YC_ARTICLE_PICK", "YC_ARTICLE_SUMMARY",
       "YC_ARTICLE_KEYPOINTS", "YC_ARTICLE_KEYWORDS",
       "GITHUB_TRENDING_MCP_NAME", "GITHUB_TRENDING_MCP_SUMMARY",
       "TRANSCRIPT_TABLE", "COUNTRY_OF_THE_DAY",
       "COUNTRY_CAPITAL_OF_THE_DAY", "CAPITAL_LOCATION_BREAKDOWN",
       "GET_TO_IT_SAYING", "CODEBASE_TODAY", "CODEBASE_SUMMARY",
       "DAYS_LEFT", "CURRENT_STUDY_YEAR", "CURRENT_STUDY_STATE",
       "CURRENT_YEAR_BEST_PICTURE", "CURRENT_YEAR_BEST_ACTOR_IN_PICTURE",
       "CURRENT_YEAR_BEST_CINEMATOGRAPHY", "CURRENT_YEAR_BEST_SCORE",
       "CURRENT_YEAR_BEST_FOREIGN_FILM", "MAJOR_INVENTION_OF_YEAR",
       "MAJOR_INVENTION_SUMMARY", "CURRENT_GOLF_STATE_SUMMARY",
       "CURRENT_YEAR_US_PRESIDENT_VPS", "NEW_MAJOR_PRESIDENTIAL_DECISION",
       "WW1_FACT", "WW2_FACT", "EUROPE_FACT", "IRELAND_FACT",
       "JERUSALEM_FACT", "INDIA_FACT", "MEXICO_FACT",
       "STUNT_RIGGING_SUMMARY", "BIKE_FUN_FACT", "NASA_LAUNCH_HISTORY",
       "TEACH_ME_GC", "QUIZ_ME_CS_TERM", "QUIZ_ME_ESPANOL" >>

OrderedSet == { ORDERED_FIELDS[i] : i \in DOMAIN ORDERED_FIELDS }

get_headers_from_context(ctx) ==
    ORDERED_FIELDS \o
        SelectSeq([i \in DOMAIN ctx |-> ctx[i].key], LAMBDA k : k \notin OrderedSet)

\* context.get(k, default)
get(ctx, k, default) == IF k \in Keys(ctx) THEN Get(ctx, k) ELSE default

\* a value as the cell holds it: str(value) unless it is a str
cell(v) == IF v.py = "str" THEN v ELSE Lit("None")

prepare_row_data(ctx, d) ==
    LET headers == get_headers_from_context(ctx)
    IN  [j \in DOMAIN headers |->
            IF headers[j] = "Date" THEN strftime_ymd(d)
            ELSE cell(get(ctx, headers[j], Str(<< >>)))]

Workbook(headers, rows) == [header |-> headers, rows |-> rows]

XlsxFile(name, wb) == [name |-> name, wb |-> wb]

NoWorkbook == Workbook(<< >>, << >>)

NoXlsx == XlsxFile(<< >>, NoWorkbook)

\* max by st_mtime, or None
get_latest_xlsx_file(st) == IF st = << >> THEN NoXlsx ELSE st[Len(st)]

\* the directory after filepath was written: it is the latest now
saved(st, f) == Append(SelectSeq(st, LAMBDA g : g.name # f.name), f)

\* update_table_xlsx, lines 129-151
update_table_xlsx_eff(st, ctx, d) ==
    LET filename == get_date_string(d)
        latest_file == get_latest_xlsx_file(st)
        wb == IF latest_file # NoXlsx /\ latest_file.name # filename
              THEN latest_file.wb
              ELSE Workbook(get_headers_from_context(ctx), << >>)
    IN  saved(st, XlsxFile(filename,
                           [wb EXCEPT !.rows = Append(@, prepare_row_data(ctx, d))]))

\* one call update_table_xlsx(context, date)
update_table_xlsx(ctx, d) ==
    /\ lastCall.op \in {"none", "update_table_xlsx"}
    /\ Len(get_latest_xlsx_file(store).wb.rows) < MaxRows
    /\ store' = update_table_xlsx_eff(store, ctx, d)
    /\ context' = ctx
    /\ lastCall' = Call("update_table_xlsx", <<d>>, "none",
                        <<get_date_string(d)>>,
                        "XLSX table updated")
    /\ UNCHANGED <<today, file, disk, engines, dayStart, gpc, outcome, missing,
                   brief, retry, saving>>

\* the contexts the table is given: the date, and the keys the quiz and the
\* language section add, which are not among the ordered fields
TableContexts ==
    { update(<< >>, << <<"FULLDATE", strftime(d)>> >> \o extra) :
        d \in {0},
        extra \in { << >>,
                    << <<"QUIZ_ME_CS_DEFINE", Fetched("QUIZ_ME_CS_DEFINE")>> >>,
                    << <<"QuizMeIngles", Fetched("QuizMeIngles")>>,
                       <<"QUIZ_ME_CS_DEFINE", Fetched("QUIZ_ME_CS_DEFINE")>> >>,
                    << <<"TEACH_ME_GC", None>> >> } }

\* the dates it is given: two successive days and a later one
TableDates == {0, 1, MaxDay}

NextTable == \E c \in TableContexts : \E d \in TableDates : update_table_xlsx(c, d)

SpecTable == Init /\ [][NextTable]_vars

----------------------------------------------------------------------------
(* generate_briefing, after gather_data *)

\* template_engine.py lines 27-38
get_to_it_phrases ==
    <<"dive into", "take a glance at", "explore", "breakdown", "examine",
      "check out", "review", "analyze", "inspect", "look at">>

\* random.choice under the seed FULLDATE: the i-th phrase, for an i the date
\* decides
rotate_phrase(phrase_list, i) == phrase_list[i]

\* the context after render_template: line 77 assigns the phrase
rendered_context(ctx, i) ==
    setitem(ctx, "GET_TO_IT_SAYING", Lit(rotate_phrase(get_to_it_phrases, i)))

\* the alert goes out whatever the flags are
emails_alert_always(dry_run, send_email, missing_fields_) ==
    (IF ~dry_run /\ send_email THEN <<"daily_brief">> ELSE << >>)
        \o (IF missing_fields_ # << >> THEN <<"alert">> ELSE << >>)

\* a run whose mail was not delivered fails
succeeded_needs_mail(failed, email_sent) == failed = "none" /\ email_sent

\* the emails of a run that did not raise, lines 400-414
emails(dry_run, send_email, missing_fields_) ==
    IF ~dry_run /\ send_email
    THEN <<"daily_brief">> \o (IF missing_fields_ # << >> THEN <<"alert">> ELSE << >>)
    ELSE << >>

\* the email of the except block, lines 427-434
error_emails(dry_run) == IF ~dry_run THEN <<"error">> ELSE << >>

\* what generate_briefing returns: email_sent is logged only
succeeded(failed, email_sent) == failed = "none"

\* main(): the exit code
exit_code(success) == IF success THEN 0 ELSE 1

\* the steps after gather_data that can raise
BriefFailures == {"none", "render", "txt", "xlsx"}

\* generate_briefing from the return of gather_data to its own return; the
\* template, the text file and the table can each fail, the mail transport
\* can be down, and the date decides the phrase
generate_briefing(dry_run, send_email, fail, transport_up, i) ==
    /\ gpc = "done"
    /\ LET ctx == rendered_context(context, i)
           mf == IF fail = "none" THEN missing_fields(ctx) ELSE << >>
           out == IF fail = "none" THEN emails(dry_run, send_email, mf)
                  ELSE error_emails(dry_run)
           ok == succeeded(fail, transport_up)
       IN  /\ context' = ctx
           /\ store' = IF fail = "none" THEN update_table_xlsx_eff(store, ctx, today)
                       ELSE store
           /\ missing' = mf
           /\ brief' = [dry_run |-> dry_run, send_email |-> send_email,
                        failed |-> fail, gathered |-> context,
                        txt |-> fail \in {"none", "xlsx"}, row |-> fail = "none",
                        sent |-> out,
                        delivered |-> IF transport_up THEN out ELSE << >>,
                        result |-> IF ok THEN "True" ELSE "False"]
           /\ lastCall' = Call("generate_briefing", << >>, "none", <<exit_code(ok)>>,
                               IF ok THEN "Daily briefing completed successfully"
                               ELSE "Daily briefing failed")
    /\ gpc' = "returned"
    /\ UNCHANGED <<today, file, disk, engines, dayStart, outcome, retry, saving>>

\* generate_briefing when gather_data raised: the except block
generate_briefing_gather_raised(dry_run, send_email, transport_up) ==
    /\ gpc = "raised"
    /\ brief' = [NoBrief EXCEPT !.dry_run = dry_run, !.send_email = send_email,
                                !.failed = "gather",
                                !.sent = error_emails(dry_run),
                                !.delivered = IF transport_up THEN error_emails(dry_run)
                                              ELSE << >>,
                                !.result = "False"]
    /\ lastCall' = Call("generate_briefing", << >>, "none", <<exit_code(FALSE)>>,
                        "Daily briefing failed")
    /\ gpc' = "returned"
    /\ UNCHANGED <<today, file, disk, engines, dayStart, outcome, context, missing,
                   store, retry, saving>>

\* a record edited by hand whose last_updated is not an ISO date
EditedNotIso == CycleState(InitialYear, 0, 1, NotIso)

\* what each source does in a briefing run: it delivers or it raises
BriefOutcomes == {"ok", "raises"}

\* one run of the program: the record may have been edited before it, the
\* engine is constructed, gather_data runs, and generate_briefing goes on to
\* its return
NextBrief ==
    \/ /\ \A e \in Runs : ~engines[e].constructed
       /\ HandEdit(ObjectFile(EditedNotIso))
    \/ \E e \in Runs : ~engines[e].constructed /\ Construct(e)
    \/ \E g \in {MaxDay} : gpc = "idle" /\ Tick(g)
    \/ \E e \in Runs : gather_begin(e)
    \/ \E s \in SourceSet : \E o \in BriefOutcomes : gather_source(s, o)
    \/ \E dry_run, send_email, transport_up \in BOOLEAN :
          \E fail \in BriefFailures : \E i \in 1..MaxPhrases :
             generate_briefing(dry_run, send_email, fail, transport_up, i)
    \/ \E dry_run, send_email, transport_up \in BOOLEAN :
          generate_briefing_gather_raised(dry_run, send_email, transport_up)

SpecBrief == Init /\ [][NextBrief]_vars

\* async_retry: the defaults of the decorator
initial_delay == 1

backoff_factor == 2

Min(a, b) == IF a < b THEN a ELSE b

\* what one attempt of the wrapped function can do: return a value, raise an
\* exception of the classes in 'exceptions', or raise one outside them
ReturnValues == {"value 1", "value 2"}

Caught == {"error 1", "error 2"}

Uncaught == {"cancelled"}

AttemptOutcomes == ReturnValues \cup Caught \cup Uncaught

last_attempt(attempt, max_attempts) == attempt = max_attempts - 1

returns(o) == o \in ReturnValues

\* the wrapper is called: delay = initial_delay, the loop begins
retry_call(m, md) ==
    /\ retry.pc = "idle"
    /\ retry' = [NoRetry EXCEPT !.pc = "attempt", !.max_attempts = m,
                                !.max_delay = md, !.delay = initial_delay]
    /\ UNCHANGED <<today, file, disk, engines, lastCall, dayStart, briefVars,
                   brief, store, saving>>

\* one await of the wrapped function and the except clause up to the sleep
retry_attempt(o) ==
    /\ retry.pc = "attempt"
    /\ LET r == [retry EXCEPT !.trace = Append(@, o)]
       IN  retry' =
             IF returns(o) THEN [r EXCEPT !.pc = "done", !.returned = o]
             ELSE IF o \in Uncaught THEN [r EXCEPT !.pc = "done", !.raised = o]
             ELSE IF o \in Caught /\ last_attempt(retry.attempt, retry.max_attempts)
                  THEN [r EXCEPT !.pc = "done", !.raised = o]
             ELSE [r EXCEPT !.pc = "sleep"]
    /\ UNCHANGED <<today, file, disk, engines, lastCall, dayStart, briefVars,
                   brief, store, saving>>

\* asyncio.sleep(delay), the new delay, and the next turn of the loop; after
\* the last turn the exception kept in last_exception is raised
retry_sleep ==
    /\ retry.pc = "sleep"
    /\ LET r == [retry EXCEPT !.trace = Append(@, "sleep"),
                              !.sleeps = Append(@, retry.delay),
                              !.delay = Min(retry.delay * backoff_factor, retry.max_delay),
                              !.attempt = @ + 1]
       IN  retry' =
             IF r.attempt < retry.max_attempts THEN [r EXCEPT !.pc = "attempt"]
             ELSE [r EXCEPT !.pc = "done", !.raised = retry.trace[Len(retry.trace)]]
    /\ UNCHANGED <<today, file, disk, engines, lastCall, dayStart, briefVars,
                   brief, store, saving>>

NextRetry ==
    \/ \E m \in 1..MaxAttempts : \E md \in 1..MaxDelay : retry_call(m, md)
    \/ \E o \in AttemptOutcomes : retry_attempt(o)
    \/ retry_sleep

SpecRetry == Init /\ [][NextRetry]_vars

\* one calendar day, begun with a record of an earlier day, on which two runs
\* overlap
InitOverlap ==
    /\ today \in 1..MaxDay
    /\ file \in { ObjectFile(r) : r \in { q \in StartRecords :
                        fromisoformat_date(q.last_updated) < today } }
    /\ dayStart = file
    /\ disk = "ok"
    /\ engines = [e \in Engines |-> NoEngine]
    /\ lastCall = NoCall
    /\ BriefInit

NextOverlap ==
    \/ \E e \in Engines : run_construct(e)
    \/ \E e \in Engines : advance_open(e)
    \/ \E e \in Engines : advance_write(e)
    \/ \E e \in Engines : advance_same_day(e)

SpecOverlap == InitOverlap /\ [][NextOverlap]_vars

\* one briefing run: the engine is constructed, on the first day or later,
\* and gather_data awaits its sources, each doing one of the things it can do
NextGather ==
    \/ \E e \in Runs : Construct(e)
    \/ \E g \in {MaxDay} : Tick(g)
    \/ \E e \in Runs : gather_begin(e)
    \/ \E s \in SourceSet : \E o \in Outcomes(s) : gather_source(s, o)
    \/ get_missing_fields

SpecGather == Init /\ [][NextGather]_vars

\* the field names of the contexts checked for missing fields
FIELDS == <<"FIELD1", "FIELD2", "FIELD3", "FIELD4", "FIELD5">>

\* the values they hold: a text, the empty string, the sentinel, None, and a
\* placeholder that is not the sentinel
FieldValues ==
    {Lit("Value 1"), Str(<< >>), SENTINEL, None, Lit("(No article available)")}

\* the contexts of at most MaxKeys keys, in every order of insertion
Contexts ==
    UNION { { c \in [1..n -> [key : { FIELDS[i] : i \in 1..MaxKeys },
                               value : FieldValues]] :
                \A i, j \in 1..n : i # j => c[i].key # c[j].key } :
            n \in 0..MaxKeys }

\* get_missing_fields is handed any context
InitMissing ==
    /\ today = 0
    /\ file = NoFile
    /\ disk = "ok"
    /\ engines = [e \in Engines |-> NoEngine]
    /\ lastCall = NoCall
    /\ dayStart = NoFile
    /\ gpc = "done"
    /\ outcome = << >>
    /\ context \in Contexts
    /\ missing = << >>
    /\ MoreInit

NextMissing == get_missing_fields

SpecMissing == InitMissing /\ [][NextMissing]_vars

----------------------------------------------------------------------------
(* Properties *)

\* the step is the call named, made on instance e (every call records its
\* name in lastCall, which is compared first)
AdvanceStep(e) == lastCall'.op = "advance" /\ advance(e)
ConstructStep(e) == lastCall'.op = "construct" /\ Construct(e)
ResetStep(e, y, i, d) ==
    lastCall'.op = "reset" /\ lastCall'.args = <<y, i, d>> /\ reset(e, y, i, d)
SimulateStep(e, n) ==
    lastCall'.op = "simulate_days" /\ lastCall'.args = <<n>> /\ simulate_days(e, n)

\* the state of instance e and the state a step leaves it in
St(e) == engines[e].state
StNext(e) == engines'[e].state

\* instance e exists and its record is dated on a day before today
LaterDay(e) ==
    /\ engines[e].constructed
    /\ IsIso(St(e).last_updated)
    /\ fromisoformat_date(St(e).last_updated) < today

\* instance e exists and its record is dated today
DatedToday(e) ==
    /\ engines[e].constructed
    /\ IsIso(St(e).last_updated)
    /\ fromisoformat_date(St(e).last_updated) = today

\* the name of the state at index i, as the specification derives it
StateName(i) == US_STATES[(i % Len(US_STATES)) + 1]

SameDayLog == "Same day, returning current cycle values"

\* C1: with last_updated on today's date, every advance() returns the triple
\* get_current() returns before it and changes neither the instance nor the
\* file, so any number of calls that day return the same triple
C1_SameDayIdempotent ==
    [][\A e \in Runs :
          (DatedToday(e) /\ AdvanceStep(e)) =>
              /\ lastCall'.raised = "none"
              /\ lastCall'.result = << <<St(e).year, StateName(St(e).state_index),
                                         St(e).days_left>> >>
              /\ (lastCall.op \in {"get_current", "advance"}
                    /\ lastCall.raised = "none"
                    => lastCall'.result = lastCall.result)
              /\ StNext(e) = St(e)
              /\ file' = file]_vars

\* an advance() was answered from the same-day branch, on a day after the
\* cycle had already moved off its default
C1_Witness ==
    /\ lastCall.op = "advance"
    /\ lastCall.log = SameDayLog
    /\ engines["e1"].state.days_left = 2
    /\ engines["e1"].state.last_updated = isoformat(today)
    /\ lastCall.result = << <<InitialYear, "Alabama", 2>> >>

\* C2: with today later than last_updated by any number of days, advance()
\* applies one cycle-step: days_left > 1 is lowered by one with year and
\* state_index kept, otherwise days_left is 3, year is one more and
\* state_index one more, 0 after the last entry of the table; last_updated
\* is today and the new triple is returned and saved
C2_OneStepWhateverTheGap ==
    [][\A e \in Runs :
          (LaterDay(e) /\ St(e).state_index \in 0..(Len(US_STATES) - 1)
             /\ AdvanceStep(e)) =>
              /\ IF St(e).days_left > 1
                 THEN /\ StNext(e).days_left = St(e).days_left - 1
                      /\ StNext(e).year = St(e).year
                      /\ StNext(e).state_index = St(e).state_index
                 ELSE /\ StNext(e).days_left = 3
                      /\ StNext(e).year = St(e).year + 1
                      /\ StNext(e).state_index =
                            IF St(e).state_index = Len(US_STATES) - 1
                            THEN 0 ELSE St(e).state_index + 1
              /\ StNext(e).last_updated = isoformat(today)
              /\ lastCall'.raised = "none"
              /\ lastCall'.result = << <<StNext(e).year,
                                         StateName(StNext(e).state_index),
                                         StNext(e).days_left>> >>
              /\ file' = ObjectFile(StNext(e))]_vars

\* advance() rolled the cycle over on the last day of the calendar
C2_Witness ==
    /\ lastCall.op = "advance"
    /\ lastCall.log = "Reset cycle"
    /\ today = MaxDay
    /\ engines["e1"].state = CycleState(InitialYear + 1, 1, 3, isoformat(MaxDay))
    /\ file = ObjectFile(engines["e1"].state)

\* the successor of days_left in the pattern 3, 2, 1
NextDaysLeft(d) == IF d = 1 THEN 3 ELSE d - 1

\* the nine triples that follow (1980, Alabama, 3)
TenDayTrace ==
    << <<1980, "Alabama", 2>>, <<1980, "Alabama", 1>>, <<1981, "Alaska", 3>>,
       <<1981, "Alaska", 2>>, <<1981, "Alaska", 1>>, <<1982, "Arizona", 3>>,
       <<1982, "Arizona", 2>>, <<1982, "Arizona", 1>>, <<1983, "Arkansas", 3>> >>

\* C3: from days_left in {1,2,3} every different-day advance moves
\* days_left along 3,2,1, never lowers year, and raises year by one
\* exactly when state_index moves (days_left 1 -> 3); the triples
\* simulate_days returns follow the same pattern, and from
\* (1980, index 0, 3) they are the ten-day trace
C3_ThreeDayPattern ==
    [][\A e \in Runs :
          /\ (LaterDay(e) /\ St(e).days_left \in {1, 2, 3} /\ AdvanceStep(e)) =>
                /\ StNext(e).days_left = NextDaysLeft(St(e).days_left)
                /\ StNext(e).year \in {St(e).year, St(e).year + 1}
                /\ (StNext(e).year = St(e).year + 1)
                      <=> (StNext(e).state_index # St(e).state_index)
                /\ (StNext(e).state_index # St(e).state_index)
                      <=> (St(e).days_left = 1)
          /\ lastCall'.op = "simulate_days" => \A n \in SimCounts :
                (engines[e].constructed /\ St(e).days_left \in {1, 2, 3}
                   /\ SimulateStep(e, n) /\ lastCall'.raised = "none") =>
                    LET r == lastCall'.result
                    IN  /\ Len(r) = n
                        /\ n > 0 => /\ r[1][3] = NextDaysLeft(St(e).days_left)
                                    /\ r[1][1] = St(e).year
                                          + (IF St(e).days_left = 1 THEN 1 ELSE 0)
                        /\ \A k \in 1..(n - 1) :
                              /\ r[k + 1][3] = NextDaysLeft(r[k][3])
                              /\ r[k + 1][1] = r[k][1]
                                    + (IF r[k][3] = 1 THEN 1 ELSE 0)
                              /\ St(e).state_index \in 0..(Len(US_STATES) - 1) =>
                                    ((r[k + 1][2] # r[k][2]) <=> (r[k][3] = 1))
                        /\ (St(e).year = 1980 /\ St(e).state_index = 0
                              /\ St(e).days_left = 3) =>
                              \A k \in 1..n :
                                  k <= Len(TenDayTrace) => r[k] = TenDayTrace[k]]_vars

\* simulate_days(9) returned the nine triples of the ten-day trace
C3_Witness ==
    /\ lastCall.op = "simulate_days"
    /\ lastCall.raised = "none"
    /\ Len(lastCall.result) >= Len(TenDayTrace)
    /\ SubSeq(lastCall.result, 1, Len(TenDayTrace)) = TenDayTrace

\* C4: on the last entry of the table (Wyoming) with days_left 1, a
\* different-day advance returns (year + 1, Alabama, 3)
C4_WyomingWrapsToAlabama ==
    [][\A e \in Runs :
          (LaterDay(e) /\ St(e).state_index = Len(US_STATES) - 1
             /\ St(e).days_left = 1 /\ AdvanceStep(e)) =>
              /\ US_STATES[St(e).state_index + 1] = "Wyoming"
              /\ lastCall'.raised = "none"
              /\ lastCall'.result = << <<St(e).year + 1, "Alabama", 3>> >>]_vars

\* advance() went from Wyoming to Alabama
C4_Witness ==
    /\ lastCall.op = "advance"
    /\ lastCall.log = "Reset cycle"
    /\ lastCall.result = << <<InitialYear + 2, "Alabama", 3>> >>
    /\ engines["e1"].state.state_index = 0

\* C5 as stated: on rollover the new state_index is (old + 1) mod 51
C5_RolloverModulo51 ==
    [][\A e \in Runs :
          (LaterDay(e) /\ St(e).days_left = 1
             /\ St(e).state_index \in 0..(Len(US_STATES) - 1) /\ AdvanceStep(e)) =>
              StNext(e).state_index = (St(e).state_index + 1) % 51]_vars

\* C5, amended: on rollover from a state_index of the table the new
\* state_index is (old + 1) mod 50, 50 being the length of the table; the
\* last valid index is 49, and a rollover from it (as from the
\* out-of-table index 50) with days_left 1 yields index 0, year + 1,
\* days_left 3
C5_RolloverModulo50 ==
    [][\A e \in Runs :
          (LaterDay(e) /\ St(e).days_left = 1 /\ AdvanceStep(e)) =>
              /\ Len(US_STATES) = 50
              /\ St(e).state_index \in 0..49 =>
                    StNext(e).state_index = (St(e).state_index + 1) % 50
              /\ St(e).state_index \in {49, 50} =>
                    /\ StNext(e).state_index = 0
                    /\ StNext(e).year = St(e).year + 1
                    /\ StNext(e).days_left = 3]_vars

\* advance() rolled over from index 49 to index 0
C5_Witness ==
    /\ lastCall.op = "advance"
    /\ lastCall.log = "Reset cycle"
    /\ engines["e1"].state.state_index = 0
    /\ engines["e1"].state.year = InitialYear + 1
    /\ lastCall.result = << <<InitialYear + 1, "Alabama", 3>> >>

\* C6: whatever advance, get_current, simulate_days and in-range reset
\* calls are made from the default initial state, days_left is in {1,2,3}
\* and 0 <= state_index < 50, in every instance and in the file
C6_RangesKept ==
    /\ \A e \in Engines :
          engines[e].constructed =>
              /\ St(e).days_left \in {1, 2, 3}
              /\ 0 <= St(e).state_index /\ St(e).state_index < 50
    /\ file.kind \in {"missing", "object"}
    /\ file.kind = "object" =>
          /\ file.data.days_left \in {1, 2, 3}
          /\ 0 <= file.data.state_index /\ file.data.state_index < 50

\* a rollover has left the instance on the first state with days_left 3
C6_Witness ==
    /\ lastCall.op = "advance"
    /\ lastCall.log = "Reset cycle"
    /\ engines["e1"].state.state_index = 0
    /\ engines["e1"].state.days_left = 3

\* C7: reset(Y, I, D) makes the instance's triple (Y, name(I), D), and an
\* instance constructed from the file right after it has the same triple
C7_ResetRoundTrip ==
    [][\A e \in Runs :
          /\ lastCall'.op = "reset" =>
                \A y \in ResetYears, i \in AnyIndexes, d \in AnyDays :
                    ResetStep(e, y, i, d) =>
                        /\ lastCall'.raised = "none"
                        /\ Triple(StNext(e)) = <<y, StateName(i), d>>
          /\ (lastCall.op = "reset" /\ lastCall.raised = "none" /\ ConstructStep(e)) =>
                /\ lastCall'.raised = "none"
                /\ engines'[e].constructed
                /\ Triple(StNext(e)) = <<lastCall.args[1],
                                         StateName(lastCall.args[2]),
                                         lastCall.args[3]>>]_vars

\* an instance was constructed from the record reset(1981, 49, 2) saved
C7_Witness ==
    /\ lastCall.op = "construct"
    /\ lastCall.log = "Loaded cycle state"
    /\ Triple(engines["e1"].state) = <<InitialYear + 1, "Wyoming", 2>>
    /\ file = ObjectFile(engines["e1"].state)

\* the file is missing, empty, or is not the four-field record
Unreadable(f) ==
    \/ f.kind \in {"missing", "empty", "malformed"}
    \/ f.kind = "object" /\ DOMAIN f.data # CycleFields

\* C8: constructing the engine over a missing, empty or unparseable record
\* does not raise, leaves get_current() at (1980, first state, 3) and
\* writes the default record to the file
C8_UnreadableGivesDefault ==
    [][\A e \in Runs :
          (Unreadable(file) /\ ConstructStep(e)) =>
              /\ lastCall'.raised = "none"
              /\ engines'[e].constructed
              /\ Triple(StNext(e)) = <<1980, US_STATES[1], 3>>
              /\ file'.kind = "object"
              /\ file'.data = StNext(e)
              /\ file'.data.year = 1980
              /\ file'.data.state_index = 0
              /\ file'.data.days_left = 3]_vars

\* the default record was created over a file that exists and could not be
\* loaded
C8_Witness ==
    /\ lastCall.op = "construct"
    /\ lastCall.log = "Failed to load cycle state"
    /\ lastCall.raised = "none"
    /\ Triple(engines["e1"].state) = <<1980, "Alabama", 3>>
    /\ file = ObjectFile(engines["e1"].state)

\* C9: whatever a hand edit left in the file, advance() on the engine
\* constructed from it does not raise
C9_AdvanceNeverRaises ==
    lastCall.op = "advance" => lastCall.raised = "none"

\* C10 as stated: the default record created over a missing file is dated
\* strictly before the day of its creation
C10_DefaultDatedInThePast ==
    [][\A e \in Runs :
          (file.kind = "missing" /\ ConstructStep(e)) =>
              /\ file'.kind = "object"
              /\ file'.data.year = 1980
              /\ file'.data.state_index = 0
              /\ file'.data.days_left = 3
              /\ fromisoformat_date(file'.data.last_updated) < today]_vars

\* C10, amended: the default record created over a missing file has year
\* 1980, state_index 0, days_left 3 and is dated the day of its creation
C10_DefaultDatedToday ==
    [][\A e \in Runs :
          (file.kind = "missing" /\ ConstructStep(e)) =>
              /\ file'.kind = "object"
              /\ file'.data.year = 1980
              /\ file'.data.state_index = 0
              /\ file'.data.days_left = 3
              /\ IsIso(file'.data.last_updated)
              /\ fromisoformat_date(file'.data.last_updated) = today]_vars

\* the default record was created over a missing file after the first day
C10_Witness ==
    /\ lastCall.op = "construct"
    /\ lastCall.log = "Created initial cycle state"
    /\ today = MaxDay
    /\ file = ObjectFile(CycleState(1980, 0, 3, isoformat(MaxDay)))

----------------------------------------------------------------------------
(* Saves that are interrupted or refused *)

\* the record the save of the step was writing
SavedRecord(e) ==
    IF lastCall'.op = "advance"
    THEN [CycleStep(St(e)) EXCEPT !.last_updated = isoformat(today)]
    ELSE CycleState(lastCall'.args[1], lastCall'.args[2], lastCall'.args[3],
                    isoformat(today))

\* the step is a reset() of instance e, with any of the arguments explored
AnyResetStep(e) ==
    /\ lastCall'.op = "reset"
    /\ \E y \in ResetYears, i \in AnyIndexes, d \in AnyDays : reset(e, y, i, d)

\* C11: a process killed at any point of the save of advance() or reset()
\* leaves cycles.json holding either the complete previous content or the
\* complete new record, never an empty or malformed file
C11_KilledSaveLeavesOldOrNew ==
    [][\A e \in Runs :
          (lastCall'.raised = "killed" /\ engines[e].constructed) =>
              \/ file' = file
              \/ file' = ObjectFile(SavedRecord(e))]_vars

\* the day number, state index and days left of a record
Durable(s) == <<s.year, s.state_index, s.days_left>>

\* C12: whatever the number of runs within one day and wherever they are
\* killed, cycles.json holds the (year, state_index, days_left) the day began
\* with or its one-cycle-step successor
C12_DayEndsAtStartOrSuccessor ==
    /\ LoadSucceeds(file)
    /\ \/ Durable(file.data) = Durable(dayStart.data)
       \/ Durable(file.data) = Durable(CycleStep(dayStart.data))

\* C13: when the write of the record fails, advance() and reset() raise to
\* the caller: advance() returns no triple and reset() does not complete
C13_FailedWriteRaises ==
    [][\A e \in Runs :
          /\ (disk # "ok" /\ LaterDay(e) /\ AdvanceStep(e)) =>
                /\ lastCall'.raised = "OSError"
                /\ lastCall'.result = << >>
          /\ (disk # "ok" /\ AnyResetStep(e)) =>
                /\ lastCall'.raised = "OSError"
                /\ lastCall'.log # "Reset cycle state"]_vars

\* an advance() on a later day raised the error of a write that failed after
\* the file was opened
C13_Witness ==
    /\ lastCall.op = "advance"
    /\ lastCall.raised = "OSError"
    /\ lastCall.log = "Reset cycle"
    /\ disk = "full"

\* C14: after advance() or reset() finishes, by returning or by raising, the
\* in-memory state of the instance equals the record in cycles.json
C14_MemoryEqualsStore ==
    [][\A e \in Runs :
          (AdvanceStep(e) \/ AnyResetStep(e)) =>
              file' = ObjectFile(StNext(e))]_vars

\* C15: when simulate_days(n) returns, for any n >= 0, the in-memory state
\* and the record in cycles.json both equal the state held before the call,
\* in all four fields
C15_SimulateRestores ==
    [][\A e \in Runs : \A n \in SimCounts :
          (SimulateStep(e, n) /\ lastCall'.raised = "none") =>
              /\ StNext(e) = St(e)
              /\ file' = ObjectFile(St(e))]_vars

\* simulate_days(MaxSim) returned MaxSim triples over a record dated before
\* today, and the record is as it was
C15_Witness ==
    /\ lastCall.op = "simulate_days"
    /\ lastCall.raised = "none"
    /\ Len(lastCall.result) = MaxSim
    /\ engines["e1"].constructed
    /\ fromisoformat_date(engines["e1"].state.last_updated) < today
    /\ file = ObjectFile(engines["e1"].state)

\* k successive cycle-steps from record s
RECURSIVE StepN(_, _)
StepN(s, k) == IF k = 0 THEN s ELSE StepN(CycleStep(s), k - 1)

\* C16: on every date, the first day of a month included, simulate_days(n)
\* returns exactly n triples, the i-th being the result of i successive
\* cycle-steps from the state held before the call
C16_SimulateReturnsNSteps ==
    [][\A e \in Runs : \A n \in SimCounts :
          SimulateStep(e, n) =>
              /\ lastCall'.raised = "none"
              /\ Len(lastCall'.result) = n
              /\ \A i \in 1..Len(lastCall'.result) :
                    lastCall'.result[i] = Triple(StepN(St(e), i))]_vars

----------------------------------------------------------------------------
(* The context gather_data returns *)

Elems(ks) == { ks[i] : i \in DOMAIN ks }

\* the keys each source is there to fill
Owned(s) ==
    CASE s = "hacker_news" -> Elems(HN_KEYS)
      [] s = "github_trending" -> Elems(GH_KEYS)
      [] s = "sheets" -> Elems(SHEETS_KEYS)
      [] s = "country" -> Elems(COUNTRY_KEYS)
      [] s = "year_based" -> Elems(YEAR_KEYS)
      [] s = "generated_facts" -> Elems(FACT_KEYS) \cup Elems(CODEBASE_KEYS)
      [] s = "language" -> Elems(LANGUAGE_KEYS)

\* the keys of a run in which every source succeeds
Vocabulary == Elems(CYCLE_KEYS) \cup UNION { Owned(s) : s \in SourceSet }

\* gather_data has returned its context
Returned == gpc \in {"done", "checked"}

\* the context has key k, with value v
Holds(k, v) == k \in Keys(context) /\ Get(context, k) = v

\* C17: whichever sources raise, gather_data() does not raise, every key of
\* a source that raised holds the sentinel '(data unavailable)' and every key
\* of a source that succeeded holds the value it delivered; the same holds
\* for each call made inside the generated-facts source
C17_FailingSourcesGiveSentinel ==
    /\ gpc # "raised"
    /\ Returned =>
          \A s \in SourceSet :
              /\ outcome[s] \in {"raises", "raises late"} =>
                    \A k \in Owned(s) : Holds(k, SENTINEL)
              /\ outcome[s] = "ok" =>
                    \A k \in Owned(s) : Holds(k, Fetched(k))
              /\ (s = "generated_facts" /\ outcome[s] # "raises") =>
                    /\ \A k \in Elems(FACT_KEYS) :
                          Holds(k, IF k \in FailingCalls(outcome[s])
                                   THEN SENTINEL ELSE Fetched(k))
                    /\ \A k \in Elems(CODEBASE_KEYS) :
                          Holds(k, IF outcome[s] = "codebase fails"
                                   THEN SENTINEL ELSE Fetched(k))

\* C18: the context gather_data() returns has the same keys, the whole
\* vocabulary, whatever each source did
C18_KeySetIsVocabulary ==
    Returned => Keys(context) = Vocabulary

\* a source returned without raising and without a result
NoResult(s) == outcome[s] \in {"empty", "no connection", "no rows"}

C20_MissingFieldsExact ==
    gpc = "checked" =>
        /\ \A k \in Keys(context) :
              (\E i \in DOMAIN missing : missing[i] = k)
                  <=> Get(context, k) \in {Str(<< >>), None, SENTINEL}
        /\ \A i \in DOMAIN missing : missing[i] \in Keys(context)
        /\ \A i, j \in DOMAIN missing : i # j => missing[i] # missing[j]

\* a context of MaxKeys keys of which the ones holding None and the empty
\* string were listed and the one holding a placeholder text was not
C20_Witness ==
    /\ gpc = "checked"
    /\ Len(context) = MaxKeys
    /\ Len(missing) = 2
    /\ \E i, j, k \in DOMAIN context :
          /\ context[i].value = None
          /\ context[j].value = Str(<< >>)
          /\ context[k].value = Lit("(No article available)")

----------------------------------------------------------------------------
(* Records dated in the future *)

\* instance e exists and its record is dated on a day after today
FutureDated(e) ==
    /\ engines[e].constructed
    /\ IsIso(St(e).last_updated)
    /\ fromisoformat_date(St(e).last_updated) > today

\* C30: with last_updated on a date later than today, advance() behaves as
\* on the same day: it returns the current triple, changes none of the four
\* fields and does not write cycles.json
C30_FutureDatedFreezes ==
    [][\A e \in Runs :
          (FutureDated(e) /\ AdvanceStep(e)) =>
              /\ lastCall'.raised = "none"
              /\ lastCall'.result = <<Triple(St(e))>>
              /\ lastCall'.log = SameDayLog
              /\ StNext(e) = St(e)
              /\ file' = file]_vars

\* an advance() was answered from the same-day branch for a record dated
\* after today
C30_Witness ==
    /\ lastCall.op = "advance"
    /\ lastCall.log = SameDayLog
    /\ engines["e1"].constructed
    /\ fromisoformat_date(engines["e1"].state.last_updated) > today
    /\ file = ObjectFile(engines["e1"].state)

----------------------------------------------------------------------------
(* Two runs on one day *)

\* every run has constructed its engine and none is inside advance()
AllFinished ==
    \A e \in Engines :
        /\ engines[e].constructed
        /\ ~InSave(saving[e])
        /\ fromisoformat_date(engines[e].state.last_updated) = today

\* C29: when two runs overlap on one day, each constructing the engine
\* before either has saved and each calling advance(), cycles.json holds,
\* after both have finished, the one-cycle-step successor of the record the
\* day began with: no double advance, no lost and no mixed record
C29_OverlapGivesSuccessor ==
    AllFinished =>
        /\ LoadSucceeds(file)
        /\ Durable(file.data) = Durable(CycleStep(dayStart.data))
        /\ file.data.last_updated = isoformat(today)
        /\ \A e \in Engines : engines[e].state = file.data

----------------------------------------------------------------------------
(* async_retry *)

\* the outcomes of the invocations made so far, in order
Invocations == SelectSeq(retry.trace, LAMBDA x : x # "sleep")

\* what the wrapper slept, had it slept after each of n failures
Backoff[n \in 0..MaxAttempts] ==
    IF n = 0 THEN << >>
    ELSE Append(Backoff[n - 1],
                IF n = 1 THEN initial_delay
                ELSE Min(Backoff[n - 1][n - 1] * backoff_factor, retry.max_delay))

\* C28: a function wrapped by async_retry(max_attempts = m >= 1) is invoked
\* at most m times; sleeps come only between two invocations, each of the
\* backoff length; the wrapper ends within 2m - 1 steps, returning the value
\* of the first attempt that returns, with no further invocation, or raising
\* the last exception, which for a retried exception happens after exactly m
\* failing invocations
C28_RetryIsBounded ==
    retry.pc # "idle" =>
        LET inv == Invocations
            n == Len(inv)
            t == retry.trace
        IN  /\ n <= retry.max_attempts
            /\ Len(t) <= 2 * retry.max_attempts - 1
            /\ \A i \in 1..Len(t) : (t[i] = "sleep") <=> (i % 2 = 0)
            /\ \A i \in 1..(n - 1) : inv[i] \in Caught
            /\ retry.pc = "done" =>
                 /\ t[Len(t)] # "sleep"
                 /\ retry.sleeps = Backoff[n - 1]
                 /\ (retry.returned # "none") # (retry.raised # "none")
                 /\ inv[n] \in ReturnValues => retry.returned = inv[n]
                 /\ inv[n] \notin ReturnValues => retry.raised = inv[n]
                 /\ inv[n] \in Caught => n = retry.max_attempts
            /\ retry.pc = "attempt" => n < retry.max_attempts /\ Len(t) = 2 * n
            /\ retry.pc = "sleep" => n < retry.max_attempts /\ Len(t) = 2 * n - 1

\* three attempts failed, the last exception was raised after two sleeps of
\* growing length
C28_Witness ==
    /\ retry.pc = "done"
    /\ retry.max_attempts = 3
    /\ retry.trace = <<"error 1", "sleep", "error 1", "sleep", "error 2">>
    /\ retry.raised = "error 2"
    /\ retry.sleeps = <<1, 2>>

----------------------------------------------------------------------------
(* The table *)

TableStep == lastCall'.op = "update_table_xlsx" /\ NextTable

\* the data rows of the most recent workbook of the directory st
LatestRows(st) == get_latest_xlsx_file(st).wb.rows

\* C25: every data row of the most recent store before a call of
\* update_table_xlsx is present, in the same order, in the store the call
\* leaves, followed by exactly one new row, on any dates, two calls on one
\* date included
C25_TableOnlyGrows ==
    [][TableStep =>
          /\ Len(LatestRows(store')) = Len(LatestRows(store)) + 1
          /\ SubSeq(LatestRows(store'), 1, Len(LatestRows(store))) = LatestRows(store)]_vars

\* C26: in every row update_table_xlsx appends, the first value is the date
\* of the run and the value of column j is the value of the field the header
\* cell of column j names, also when successive contexts have different keys
\* or orders of keys
C26_ColumnsAreStable ==
    [][TableStep =>
          LET f == get_latest_xlsx_file(store')
              h == f.wb.header
              r == f.wb.rows[Len(f.wb.rows)]
          IN  /\ r[1] = strftime_ymd(lastCall'.args[1])
              /\ Len(r) = Len(h)
              /\ \A j \in 2..Len(h) : r[j] = cell(get(context', h[j], Str(<< >>)))]_vars

----------------------------------------------------------------------------
(* generate_briefing *)

\* the main email was handed to the transport, which did not deliver it,
\* in a run that produced the text and the row
MailFailed ==
    /\ gpc = "returned"
    /\ ~brief.dry_run /\ brief.send_email
    /\ brief.txt /\ brief.row
    /\ "daily_brief" \in Elems(brief.sent)
    /\ "daily_brief" \notin Elems(brief.delivered)

\* C21: the missing-fields alert is sent only when the list of missing
\* fields is not empty, in a run that is not a dry run and has email enabled;
\* a dry run sends no email of any kind, on any path
C21_AlertOnlyWhenMissingAndEnabled ==
    gpc = "returned" =>
        /\ "alert" \in Elems(brief.sent) =>
              missing # << >> /\ ~brief.dry_run /\ brief.send_email
        /\ brief.dry_run => brief.sent = << >>

\* a run with email enabled reported fields missing and sent the alert after
\* the briefing
C21_Witness ==
    /\ gpc = "returned"
    /\ brief.sent = <<"daily_brief", "alert">>
    /\ missing # << >>
    /\ ~brief.dry_run /\ brief.send_email

\* C22: a run exits with 0 whenever the text file and the table row were
\* produced, whatever sources failed, and exits with a non-zero code only
\* when rendering or persistence raised
C22_ExitContract ==
    gpc = "returned" =>
        /\ (brief.txt /\ brief.row) => lastCall.result = <<0>>
        /\ lastCall.result # <<0>> => brief.failed \in {"render", "txt", "xlsx"}

\* C23 as stated: when the main briefing email cannot be sent, in a run that
\* is not a dry run and has email enabled, the run reports failure
C23_MailFailureIsFatal ==
    MailFailed => brief.result = "False" /\ lastCall.result # <<0>>

\* C23 amended: when the main briefing email cannot be sent, in a run that is
\* not a dry run, has email enabled and produced the text and the row, the
\* run still returns True and exits with 0
C23_MailFailureIsNotFatal ==
    MailFailed => brief.result = "True" /\ lastCall.result = <<0>>

\* the transport was down for a run that sends its briefing
C23_Witness ==
    /\ MailFailed
    /\ brief.delivered = << >>
    /\ brief.result = "True"

\* C24: render_template leaves the context as it is, so the context the
\* table and the missing-field check are given is the one gather_data returned
C24_RenderKeepsContext ==
    (gpc = "returned" /\ brief.failed # "gather") => context = brief.gathered

----------------------------------------------------------------------------
(* The order of the sources *)

Completed(s) == outcome # << >> /\ outcome[s] # "pending"

Started(s) == Completed(s) \/ gpc = s

Gathering == gpc \in SourceSet

====
